---------------------------- MODULE Spec2Model ----------------------------
(***************************************************************************)
(* UartUpliftSensor (esphome/uplift_uart.h): the decoder of the serial     *)
(* telemetry stream of a height-adjustable desk.  loop() polls the UART,   *)
(* looks for the start marker 1,1 (startcode), reads a high and a low      *)
(* payload byte and publishes raw_data / 10.0 when the value changed.      *)
(*                                                                         *)
(* The statics of loop() and startcode() are the state.  loop() is         *)
(* modelled one iteration of its while loops at a time (pc is its          *)
(* position), so that bytes may arrive on the UART while it runs.          *)
(* publish_state(raw_data / 10.0) is recorded by its numerator raw_data,   *)
(* the value in tenths, which determines the published float exactly.     *)
(***************************************************************************)
EXTENDS Integers, Sequences, FiniteSets

(* ---- bounds of the model ---- *)
MaxNoise == 4
MaxStream == 14
MaxRx == 2
MaxWide == 7

(* bytes an arbitrary stream is drawn from, and low bytes of the frames    *)
NoiseBytes == {0, 1, 2}
HighBytes == {0, 1}
LowBytes == {0, 1, 255}

(* bytes of the streams that probe the width of raw_data                   *)
WideBytes == {0, 1, 128, 255}

(* the stream of the "full round trip" property                            *)
RoundTripInput == <<9, 1, 1, 0, 150, 1, 1, 0, 150, 1, 1, 0, 151>>

VARIABLES
  mode,               \* static bool mode: FALSE seeking, TRUE in a frame
  first_byte,         \* static bool first_byte: next frame byte is the high byte
  raw_data,           \* static unsigned short raw_data
  previous_raw_data,  \* static unsigned short previous_raw_data
  lastch,             \* static int lastch of startcode()
  pc,                 \* position of loop(): "idle", "seek" (line 31), "frame" (line 36)
  rx,                 \* bytes received by the UART and not yet read()
  pubs,               \* the raw values passed to publish_state, in order
  phase,              \* the sender: "noise" (arbitrary bytes) or "frames" (well-formed frames)
  fpos,               \* the sender's position in the frame it is sending, 0..3
  trace,              \* whether the run records its history (log, pubs)
  rxTag,              \* for each byte of rx: 0 arbitrary byte, 1..4 its place in a frame
  log,                \* one record per byte read: the byte, its tag, what the decoder did
  lastTag,            \* tag of the byte read last
  last2,              \* the two bytes read last
  heal,               \* 0, 1: a frame with low byte >= 2 was read, 2: and a later frame begun
  wasOff,             \* a frame's first byte was read while not seeking afresh
  callRead,           \* the running invocation of loop() has read a byte
  callPubs,           \* publish_state calls of the running invocation of loop()
  sent                \* the bytes the sender has sent, in order

decoder == <<mode, first_byte, raw_data, previous_raw_data, lastch>>
ghost == <<lastTag, last2, heal, wasOff>>
sender == <<phase, fpos>>
vars == <<mode, first_byte, raw_data, previous_raw_data, lastch, pc, rx, pubs,
          phase, fpos, trace, rxTag, log, lastTag, last2, heal, wasOff,
          callRead, callPubs, sent>>

(* ---- arithmetic of the C types ---- *)
\* as if raw_data were an unsigned char
U16_byte(x) == x % 256

U16(x) == x % 65536

(* ---- startcode(readch), with its static lastch as a parameter ---- *)
\* as if line 14 were missing
startcode_noreset(readch, lc) ==
  IF readch = 1 /\ lc = 1
    THEN [ret |-> TRUE, lastch |-> readch]
    ELSE [ret |-> FALSE, lastch |-> readch]

\* as if a single byte 1 were the marker
startcode_single(readch, lc) ==
  IF readch = 1
    THEN [ret |-> TRUE, lastch |-> 0]
    ELSE [ret |-> FALSE, lastch |-> readch]

startcode(readch, lc) ==
  IF readch = 1 /\ lc = 1
    THEN [ret |-> TRUE, lastch |-> 0]
    ELSE [ret |-> FALSE, lastch |-> readch]

(* ---- UARTDevice::read(): the oldest byte, -1 when there is none ---- *)
read(buf) == IF Len(buf) > 0 THEN Head(buf) ELSE -1

(* ---- the conditions of the two while loops of loop() ---- *)
\* as if the marker loop did not ask available()
SeekCond_noavail(m, n) == m = FALSE

SeekCond(m, n) == m = FALSE /\ n > 0

\* as if the data loop did not ask available()
FrameCond_noavail(m, n) == m = TRUE

FrameCond(m, n) == m = TRUE /\ n > 0

(* ---- one iteration of the marker loop ---- *)
SeekByte(b, lc) ==
  LET s == startcode(b, lc)
  IN [mode |-> s.ret, lastch |-> s.lastch, first_byte |-> TRUE]

(* ---- the high byte branch of the data loop ---- *)
\* as if the range check of line 40 were raw_data >= 256
HighByte_strict(b) ==
  LET r == U16(256 * b)
  IN [raw_data |-> r, first_byte |-> FALSE, mode |-> ~(r >= 256)]

\* as if the range check of line 40 were missing
HighByte_noreject(b) ==
  LET r == U16(256 * b)
  IN [raw_data |-> r, first_byte |-> FALSE, mode |-> TRUE]

HighByte(b) ==
  LET r == U16(256 * b)
  IN [raw_data |-> r, first_byte |-> FALSE, mode |-> ~(r > 256)]

(* ---- the low byte branch of the data loop ---- *)
\* as if every completed frame were published
LowByte_always(raw, prev, b) ==
  LET r == U16(raw + b)
  IN [raw_data |-> r, mode |-> FALSE, publish |-> TRUE, previous_raw_data |-> r]

\* as if line 45 were missing
LowByte_staymode(raw, prev, b) ==
  LET r == U16(raw + b)
  IN [raw_data |-> r, mode |-> TRUE, publish |-> prev # r,
      previous_raw_data |-> IF prev # r THEN r ELSE prev]

\* as if line 48 were missing
LowByte_keepprev(raw, prev, b) ==
  LET r == U16(raw + b)
  IN [raw_data |-> r, mode |-> FALSE, publish |-> prev # r, previous_raw_data |-> prev]

LowByte(raw, prev, b) ==
  LET r == U16(raw + b)
  IN [raw_data |-> r, mode |-> FALSE, publish |-> prev # r,
      previous_raw_data |-> IF prev # r THEN r ELSE prev]

(* ---- history ---- *)
Count(s, t) == Cardinality({i \in 1..Len(s) : s[i] = t})

LogTags == [i \in 1..Len(log) |-> log[i].tag]

NoiseFed == Count(LogTags, 0) + Count(rxTag, 0)

Fed == Len(log) + Len(rx)

(* what reading the head of rx does to the history                         *)
Consume(role, raw, pub) ==
  LET b == read(rx)
      t == IF Len(rxTag) > 0 THEN Head(rxTag) ELSE 0
  IN /\ rx' = (IF Len(rx) > 0 THEN Tail(rx) ELSE rx)
     /\ rxTag' = (IF Len(rxTag) > 0 THEN Tail(rxTag) ELSE rxTag)
     /\ log' = IF trace
                 THEN Append(log, [b |-> b, tag |-> t, role |-> role,
                                   raw |-> raw, pub |-> pub,
                                   m0 |-> mode, lc0 |-> lastch])
                 ELSE log
     /\ lastTag' = t
     /\ last2' = <<last2[2], b>>
     /\ heal' = IF t = 4 /\ b >= 2 /\ heal = 0 THEN 1
                ELSE IF t = 1 /\ heal = 1 THEN 2
                ELSE heal
     /\ wasOff' = (wasOff \/ (t = 1 /\ (mode \/ lastch = 1)))
     /\ callRead' = TRUE
     /\ sent' = sent

(* ---- the sender ---- *)
ArriveNoise ==
  /\ phase = "noise"
  /\ Len(rx) < MaxRx
  /\ trace => (NoiseFed < MaxNoise /\ Fed < MaxStream)
  /\ \E b \in NoiseBytes :
       /\ rx' = Append(rx, b)
       /\ rxTag' = Append(rxTag, 0)
       /\ sent' = (IF trace THEN Append(sent, b) ELSE sent)
  /\ UNCHANGED <<decoder, pc, pubs, sender, trace, log, ghost, callRead, callPubs>>

StartFrames ==
  /\ phase = "noise"
  /\ phase' = "frames"
  /\ fpos' = 0
  /\ UNCHANGED <<decoder, pc, rx, pubs, trace, rxTag, log, ghost, callRead, callPubs, sent>>

ArriveFrame ==
  /\ phase = "frames"
  /\ Len(rx) < MaxRx
  /\ trace => Fed < MaxStream
  /\ \E b \in (IF fpos < 2 THEN {1} ELSE IF fpos = 2 THEN HighBytes ELSE LowBytes) :
       /\ rx' = Append(rx, b)
       /\ rxTag' = Append(rxTag, fpos + 1)
       /\ sent' = (IF trace THEN Append(sent, b) ELSE sent)
  /\ fpos' = (fpos + 1) % 4
  /\ UNCHANGED <<decoder, pc, pubs, phase, trace, log, ghost, callRead, callPubs>>

ArriveScript ==
  /\ phase = "noise"
  /\ trace
  /\ Len(rx) < MaxRx
  /\ Fed < Len(RoundTripInput)
  /\ rx' = Append(rx, RoundTripInput[Fed + 1])
  /\ rxTag' = Append(rxTag, 0)
  /\ sent' = Append(sent, RoundTripInput[Fed + 1])
  /\ UNCHANGED <<decoder, pc, pubs, sender, trace, log, ghost, callRead, callPubs>>

\* any byte of WideBytes, up to MaxWide of them
ArriveWide ==
  /\ phase = "noise"
  /\ trace
  /\ Len(rx) < MaxRx
  /\ Fed < MaxWide
  /\ \E b \in WideBytes :
       /\ rx' = Append(rx, b)
       /\ rxTag' = Append(rxTag, 0)
       /\ sent' = Append(sent, b)
  /\ UNCHANGED <<decoder, pc, pubs, sender, trace, log, ghost, callRead, callPubs>>

(* ---- loop() ---- *)
LoopEnter ==
  /\ pc = "idle"
  /\ pc' = "seek"
  /\ callRead' = FALSE
  /\ callPubs' = 0
  /\ UNCHANGED <<decoder, rx, pubs, sender, trace, rxTag, log, ghost, sent>>

\* while (mode == false && available()) { mode = startcode(read()); first_byte = true; }
SeekRead ==
  /\ pc = "seek"
  /\ SeekCond(mode, Len(rx))
  /\ LET s == SeekByte(read(rx), lastch)
     IN /\ mode' = s.mode
        /\ lastch' = s.lastch
        /\ first_byte' = s.first_byte
        /\ Consume(IF s.mode THEN "marker" ELSE "seek", raw_data, FALSE)
  /\ UNCHANGED <<raw_data, previous_raw_data, pc, pubs, sender, trace, callPubs>>

SeekExit ==
  /\ pc = "seek"
  /\ ~SeekCond(mode, Len(rx))
  /\ pc' = "frame"
  /\ UNCHANGED <<decoder, rx, pubs, sender, trace, rxTag, log, ghost, callRead, callPubs, sent>>

\* if (first_byte) { raw_data = 256*read(); first_byte = false; if (raw_data > 256) mode = false; }
FrameHigh ==
  /\ pc = "frame"
  /\ FrameCond(mode, Len(rx))
  /\ first_byte
  /\ LET h == HighByte(read(rx))
     IN /\ raw_data' = h.raw_data
        /\ first_byte' = h.first_byte
        /\ mode' = h.mode
        /\ Consume(IF h.mode THEN "high" ELSE "reject", h.raw_data, FALSE)
  /\ UNCHANGED <<previous_raw_data, lastch, pc, pubs, sender, trace, callPubs>>

\* else { raw_data += read(); mode = false; if (previous_raw_data != raw_data) { publish; ... } }
FrameLow ==
  /\ pc = "frame"
  /\ FrameCond(mode, Len(rx))
  /\ ~first_byte
  /\ LET l == LowByte(raw_data, previous_raw_data, read(rx))
     IN /\ raw_data' = l.raw_data
        /\ mode' = l.mode
        /\ previous_raw_data' = l.previous_raw_data
        /\ pubs' = IF l.publish /\ trace THEN Append(pubs, l.raw_data) ELSE pubs
        /\ callPubs' = IF l.publish THEN callPubs + 1 ELSE callPubs
        /\ Consume("low", l.raw_data, l.publish)
  /\ UNCHANGED <<first_byte, lastch, pc, sender, trace>>

FrameExit ==
  /\ pc = "frame"
  /\ ~FrameCond(mode, Len(rx))
  /\ pc' = "idle"
  /\ UNCHANGED <<decoder, rx, pubs, sender, trace, rxTag, log, ghost, callRead, callPubs, sent>>

Loop == LoopEnter \/ SeekRead \/ SeekExit \/ FrameHigh \/ FrameLow \/ FrameExit

(* ---- specifications ---- *)
InitCommon ==
  /\ mode = FALSE
  /\ first_byte = TRUE
  /\ raw_data = 0
  /\ previous_raw_data = 0
  /\ lastch = 0
  /\ pc = "idle"
  /\ rx = <<>>
  /\ pubs = <<>>
  /\ phase = "noise"
  /\ fpos = 0
  /\ rxTag = <<>>
  /\ log = <<>>
  /\ lastTag = 0
  /\ last2 = <<0, 0>>
  /\ heal = 0
  /\ wasOff = FALSE
  /\ callRead = FALSE
  /\ callPubs = 0
  /\ sent = <<>>

Init == InitCommon /\ trace = TRUE

Next ==
  \/ ArriveNoise
  \/ StartFrames
  \/ ArriveFrame
  \/ LoopEnter
  \/ SeekRead
  \/ SeekExit
  \/ FrameHigh
  \/ FrameLow
  \/ FrameExit

Spec == Init /\ [][Next]_vars

(* the round trip stream, delivered with any timing                        *)
NextScript ==
  \/ ArriveScript
  \/ LoopEnter
  \/ SeekRead
  \/ SeekExit
  \/ FrameHigh
  \/ FrameLow
  \/ FrameExit

ScriptSpec == Init /\ [][NextScript]_vars

(* short streams over the whole range of a byte                            *)
NextWide ==
  \/ ArriveWide
  \/ LoopEnter
  \/ SeekRead
  \/ SeekExit
  \/ FrameHigh
  \/ FrameLow
  \/ FrameExit

WideSpec == Init /\ [][NextWide]_vars

(* an endless stream: no history is kept, the scheduler keeps calling      *)
(* loop() and the desk keeps sending                                       *)
LiveInit == InitCommon /\ trace = FALSE

LiveSpec == LiveInit /\ [][Next]_vars /\ WF_vars(Loop) /\ WF_vars(ArriveFrame)

TypeOK ==
  /\ mode \in BOOLEAN
  /\ first_byte \in BOOLEAN
  /\ raw_data \in 0..65535
  /\ previous_raw_data \in 0..65535
  /\ pc \in {"idle", "seek", "frame"}
  /\ Len(rx) = Len(rxTag)
  /\ Len(rx) <= MaxRx

(* ======================= properties of the decoder ===================== *)
N == Len(log)

(* the completed frames (low byte steps) in order                          *)
Done == SelectSeq(log, LAMBDA e : e.role = "low")

NoNoise == \A i \in 1..N : log[i].tag # 0

(* a stream of frames only: frame k is bytes 4k-3 .. 4k                    *)
FrameVals == [k \in 1..(N \div 4) |-> 256 * log[4 * k - 1].b + log[4 * k].b]

(* the values a sink sees when each value that differs from the one        *)
(* before it (at first: last) is passed on                                 *)
RECURSIVE Emitted(_, _)
Emitted(vals, last) ==
  IF vals = <<>> THEN <<>>
  ELSE IF Head(vals) # last
    THEN <<Head(vals)>> \o Emitted(Tail(vals), Head(vals))
    ELSE Emitted(Tail(vals), last)

(* C1: fed well-formed frames only from the initial state, the decoder     *)
(* publishes exactly once for each frame whose value 256*h+l differs from  *)
(* the value of the frame before it (0 for the first), publishes that      *)
(* value, and publishes nothing for the other frames.                      *)
Thm_C1 ==
  NoNoise =>
    /\ pubs = Emitted(FrameVals, 0)
    /\ \A i \in 1..N : log[i].pub => log[i].tag = 4
    /\ \A k \in 1..(N \div 4) :
         /\ log[4 * k].raw = FrameVals[k]
         /\ log[4 * k].pub <=> (FrameVals[k] # (IF k = 1 THEN 0 ELSE FrameVals[k - 1]))

Wit_C1 ==
  /\ NoNoise
  /\ N = 12
  /\ FrameVals[1] = FrameVals[2]
  /\ FrameVals[2] # FrameVals[3]
  /\ pubs = <<FrameVals[1], FrameVals[3]>>

(* C2: no two consecutive publish calls carry the same raw value, and a    *)
(* completed frame whose value equals that of the completed frame just     *)
(* before it is not published.                                             *)
Thm_C2 ==
  /\ \A i \in 1..(Len(pubs) - 1) : pubs[i] # pubs[i + 1]
  /\ \A i \in 1..(Len(Done) - 1) : Done[i].raw = Done[i + 1].raw => ~Done[i + 1].pub

Wit_C2 ==
  \E i \in 1..(Len(Done) - 1) :
    /\ Done[i].raw = Done[i + 1].raw
    /\ Done[i].pub
    /\ ~NoNoise

(* the first place after i where two consecutive bytes 1 were read, or 0   *)
NextPair(i) ==
  LET c == {j \in (i + 1)..(N - 1) : log[j].b = 1 /\ log[j + 1].b = 1}
  IN IF c = {} THEN 0 ELSE CHOOSE j \in c : \A k \in c : j <= k

PubCount == Cardinality({i \in 1..N : log[i].pub})

(* C3: a byte greater than 1 read as the high byte after a marker is       *)
(* rejected: the decoder is seeking again with lastch = 0 and nothing was  *)
(* published; the next two consecutive bytes 1 of the stream are taken as  *)
(* a marker, and the bytes after them as the high and low byte of a frame. *)
Thm_C3 ==
  /\ Len(pubs) = PubCount
  /\ \A i \in 2..N :
       (log[i - 1].role = "marker" /\ log[i].b > 1) => log[i].role = "reject"
  /\ (N > 0 /\ log[N].role = "reject") => (mode = FALSE /\ lastch = 0)
  /\ \A i \in 1..N :
       log[i].role = "reject" =>
         /\ ~log[i].pub
         /\ LET j == NextPair(i)
            IN j # 0 =>
                 /\ log[j + 1].role = "marker"
                 /\ j + 2 <= N =>
                      log[j + 2].role = (IF log[j + 2].b <= 1 THEN "high" ELSE "reject")
                 /\ (j + 3 <= N /\ log[j + 2].b <= 1) =>
                      /\ log[j + 3].role = "low"
                      /\ log[j + 3].raw = 256 * log[j + 2].b + log[j + 3].b

Wit_C3 ==
  \E i \in 1..N :
    /\ log[i].role = "reject"
    /\ NextPair(i) > i + 1
    /\ NextPair(i) + 3 <= N
    /\ log[NextPair(i) + 3].role = "low"
    /\ log[NextPair(i) + 3].pub

(* the bytes of the well-formed frames that were read, and the values of   *)
(* the frames read whole                                                   *)
Tagged == SelectSeq(log, LAMBDA e : e.tag # 0)

WholeVals ==
  {256 * Tagged[4 * k - 1].b + Tagged[4 * k].b : k \in 1..(Len(Tagged) \div 4)}

(* where the first byte of the first frame is in the log, 0 if not yet     *)
FirstFrame ==
  LET c == {i \in 1..N : log[i].tag # 0}
  IN IF c = {} THEN 0 ELSE CHOOSE i \in c : \A k \in c : i <= k

TagRole(t) ==
  IF t = 1 THEN "seek" ELSE IF t = 2 THEN "marker" ELSE IF t = 3 THEN "high" ELSE "low"

(* C4 as claimed: after any prefix of arbitrary bytes, every publish made  *)
(* while the bytes of the well-formed frames are read carries the value    *)
(* 256*h+l of one of those frames (judged when the frames sent so far have *)
(* been read whole).                                                       *)
Cex_C4 ==
  (phase = "frames" /\ fpos = 0 /\ rx = <<>>) =>
    \A i \in 1..N : (log[i].tag # 0 /\ log[i].pub) => log[i].raw \in WholeVals

(* C4 amended: when the prefix leaves the decoder seeking with lastch # 1  *)
(* (as it reads the first frame byte), every byte of the frames is read in *)
(* its own role and every publish made while they are read happens at a    *)
(* frame's low byte and carries that frame's 256*h+l.                      *)
Thm_C4 ==
  (FirstFrame # 0 /\ log[FirstFrame].m0 = FALSE /\ log[FirstFrame].lc0 # 1) =>
    \A i \in FirstFrame..N :
      /\ log[i].role = TagRole(log[i].tag)
      /\ log[i].pub => log[i].tag = 4
      /\ log[i].tag = 4 => log[i].raw = 256 * log[i - 1].b + log[i].b

Wit_C4 ==
  /\ FirstFrame > 1
  /\ log[FirstFrame].m0 = FALSE
  /\ log[FirstFrame].lc0 # 1
  /\ N >= FirstFrame + 7
  /\ log[FirstFrame + 3].pub
  /\ log[FirstFrame + 7].pub
  /\ \E i \in 1..(FirstFrame - 1) : log[i].role = "marker"

(* the decoder has read the frame bytes so far in their own roles          *)
Aligned ==
  /\ lastTag = 1 => (mode = FALSE /\ lastch = 1)
  /\ lastTag = 2 => (mode = TRUE /\ first_byte = TRUE)
  /\ lastTag = 3 => (mode = TRUE /\ first_byte = FALSE /\ raw_data = 256 * last2[2])
  /\ lastTag = 4 => (mode = FALSE /\ lastch # 1)

Decoded ==
  lastTag = 4 =>
    /\ raw_data = 256 * last2[1] + last2[2]
    /\ previous_raw_data = raw_data
    /\ lastch = 0

(* C5 as claimed: once the stream consists of well-formed frames only, the *)
(* decoder eventually reads the frames at their true boundaries for good.  *)
Cex_C5 == [](phase = "frames" => <>[]Aligned)

(* C5 amended: once the stream consists of well-formed frames only, from   *)
(* the end of the first frame whose low byte is at least 2 the decoder is  *)
(* seeking afresh at every frame boundary, takes every later marker at its *)
(* true place and assembles every later frame from its own two bytes.      *)
Thm_C5 ==
  /\ heal >= 1 => Aligned
  /\ heal = 2 => Decoded

Wit_C5 ==
  /\ wasOff
  /\ heal = 2
  /\ lastTag = 4
  /\ trace = FALSE

(* C6: the stream 9,1,1,0,150,1,1,0,150,1,1,0,151 yields exactly the two   *)
(* publish calls 150 (15.0) and 151 (15.1) and ends seeking.               *)
Thm_C6 ==
  /\ pubs \in {<<>>, <<150>>, <<150, 151>>}
  /\ N = Len(RoundTripInput) => (pubs = <<150, 151>> /\ mode = FALSE)

Wit_C6 ==
  /\ N = Len(RoundTripInput)
  /\ [i \in 1..N |-> log[i].b] = RoundTripInput
  /\ pubs = <<150, 151>>
  /\ pc = "idle"

(* C7: a byte read while seeking completes the marker iff it is 1 and      *)
(* lastch is 1; then the decoder is in a frame, awaits the high byte and   *)
(* lastch is 0; otherwise it keeps seeking and lastch is the byte.         *)
Thm_C7 ==
  [][(mode = FALSE /\ Len(rx) > 0 /\ Len(rx') < Len(rx)) =>
       IF Head(rx) = 1 /\ lastch = 1
         THEN mode' = TRUE /\ first_byte' = TRUE /\ lastch' = 0
         ELSE mode' = FALSE /\ lastch' = Head(rx)]_vars

Wit_C7 ==
  /\ N >= 3
  /\ log[N].role = "marker"
  /\ log[N - 1].role = "seek"
  /\ log[N - 2].role = "low"
  /\ mode = TRUE
  /\ first_byte = TRUE
  /\ lastch = 0

(* C8: a step of loop() taken while no byte is available changes no field  *)
(* of the decoder and publishes nothing.                                   *)
Thm_C8 ==
  [][(Len(rx) = 0 /\ Len(rx') = 0) =>
       UNCHANGED <<mode, first_byte, lastch, raw_data, previous_raw_data, pubs>>]_vars

Wit_C8 ==
  /\ pc = "frame"
  /\ rx = <<>>
  /\ callRead = FALSE
  /\ mode = TRUE
  /\ first_byte = FALSE

(* C9: a byte read as the high byte is accepted iff it is at most 1 (1     *)
(* gives raw_data = 256), and every published raw value is in 0..511.      *)
Thm_C9 ==
  /\ \A i \in 1..N :
       log[i].role \in {"high", "reject"} =>
         /\ log[i].role = "high" <=> log[i].b <= 1
         /\ log[i].raw = 256 * log[i].b
  /\ \A i \in 1..(N - 1) : log[i].role = "high" => log[i + 1].role = "low"
  /\ \A i \in 1..Len(pubs) : pubs[i] \in 0..511

Wit_C9 ==
  /\ \E i \in 1..Len(pubs) : pubs[i] = 511
  /\ \E i \in 1..N : log[i].role = "reject"
  /\ \E i \in 1..N : log[i].role = "high" /\ log[i].raw = 256

(* C10 as claimed: no raw value is published twice.                        *)
Cex_C10 ==
  \A i, j \in 1..Len(pubs) : i < j => pubs[i] # pubs[j]

(* C10 amended: a raw value is published at most once per run of           *)
(* consecutive completed frames carrying it: between two publish calls     *)
(* with the same raw value a frame with another value was completed.       *)
Thm_C10 ==
  \A i, j \in 1..Len(Done) :
    (i < j /\ Done[i].pub /\ Done[j].pub /\ Done[i].raw = Done[j].raw) =>
      \E k \in (i + 1)..(j - 1) : Done[k].raw # Done[i].raw

Wit_C10 ==
  \E i, j \in 1..Len(Done) :
    /\ i < j
    /\ Done[i].pub
    /\ Done[j].pub
    /\ Done[i].raw = Done[j].raw

(* C11: a completed frame with raw value 0 is published only after a       *)
(* publish of a nonzero value; the first publish of a run never carries 0. *)
Thm_C11 ==
  /\ pubs # <<>> => pubs[1] # 0
  /\ \A i \in 1..Len(Done) :
       (Done[i].raw = 0 /\ Done[i].pub) =>
         \E k \in 1..(i - 1) : Done[k].pub /\ Done[k].raw # 0

Wit_C11 ==
  /\ Len(Done) >= 3
  /\ Done[1].raw = 0
  /\ ~Done[1].pub
  /\ Done[3].raw = 0
  /\ Done[3].pub

(* the decoder of the specification: onByte applied to its DecoderState    *)
OnByteInit ==
  [syncState |-> "Seeking", awaitingHighByte |-> FALSE, lastMarkerByte |-> 0,
   rawValue |-> 0, lastEmittedValue |-> 0, out |-> <<>>]

OnByte(st, b) ==
  IF st.syncState = "Seeking"
    THEN IF b = 1 /\ st.lastMarkerByte = 1
           THEN [st EXCEPT !.syncState = "InFrame", !.lastMarkerByte = 0,
                           !.awaitingHighByte = TRUE]
           ELSE [st EXCEPT !.lastMarkerByte = b]
    ELSE IF st.awaitingHighByte
           THEN [st EXCEPT !.rawValue = 256 * b, !.awaitingHighByte = FALSE,
                           !.syncState = IF 256 * b > 256 THEN "Seeking" ELSE "InFrame"]
           ELSE LET v == st.rawValue + b
                IN [st EXCEPT !.rawValue = v, !.syncState = "Seeking",
                              !.lastEmittedValue = v,
                              !.out = IF v # st.lastEmittedValue
                                        THEN Append(st.out, v) ELSE st.out]

RECURSIVE OnBytes(_, _)
OnBytes(st, bytes) ==
  IF bytes = <<>> THEN st ELSE OnBytes(OnByte(st, Head(bytes)), Tail(bytes))

LogBytes == [i \in 1..N |-> log[i].b]

(* C12: however the bytes become available to the invocations of loop(),   *)
(* the bytes read are the bytes sent, in order, each once, and the values  *)
(* published (and the decoder state) are those of onByte applied to the    *)
(* bytes read one at a time.                                               *)
Thm_C12 ==
  /\ sent = LogBytes \o rx
  /\ LET r == OnBytes(OnByteInit, LogBytes)
     IN /\ pubs = r.out
        /\ mode = (r.syncState = "InFrame")
        /\ lastch = r.lastMarkerByte
        /\ previous_raw_data = r.lastEmittedValue
        /\ mode => (first_byte = r.awaitingHighByte)
        /\ (mode /\ ~first_byte) => raw_data = r.rawValue

Wit_C12 ==
  /\ pc = "frame"
  /\ mode = FALSE
  /\ callPubs = 1
  /\ Len(rx) = MaxRx
  /\ Len(pubs) >= 2
  /\ \E i \in 1..N : log[i].role = "reject"

(* C13: an invocation of loop() calls publish_state at most once: once a   *)
(* frame is completed or rejected it reads no further byte.                *)
Thm_C13 ==
  /\ [](callPubs <= 1)
  /\ [][(pc = "frame" /\ mode = FALSE) => (Len(rx') >= Len(rx) /\ pubs' = pubs)]_vars

Wit_C13 ==
  /\ pc = "idle"
  /\ callPubs = 1
  /\ Len(rx) = MaxRx
  /\ Len(pubs) >= 2

(* C14: a frame is two payload bytes: the byte read after an accepted high *)
(* byte is the low byte and leaves the decoder seeking, published or not;  *)
(* no three bytes in a row are read in a frame.                            *)
Thm_C14 ==
  /\ \A i \in 1..N :
       /\ (log[i].role = "high" /\ i < N) => log[i + 1].role = "low"
       /\ (log[i].role = "low" /\ i < N) => log[i + 1].m0 = FALSE
       /\ i + 2 <= N => ~(log[i].m0 /\ log[i + 1].m0 /\ log[i + 2].m0)
  /\ (N > 0 /\ log[N].role = "low") => mode = FALSE

Wit_C14 ==
  /\ N > 0
  /\ log[N].role = "low"
  /\ ~log[N].pub
  /\ mode = FALSE
  /\ \E i \in 1..N : log[i].role = "low" /\ log[i].pub

(* C15: payload bytes take no part in marker detection: in a frame lastch  *)
(* is 0, a byte read in a frame leaves lastch unchanged, after a completed *)
(* or rejected frame the decoder seeks with lastch = 0, and a low byte 1   *)
(* followed by a single 1 is not taken as a marker.                        *)
Thm_C15 ==
  /\ mode = TRUE => lastch = 0
  /\ \A i \in 1..N :
       log[i].m0 =>
         /\ log[i].lc0 = 0
         /\ i < N => log[i + 1].lc0 = 0
         /\ i = N => lastch = 0
         /\ (log[i].role \in {"low", "reject"} /\ i < N) =>
              (log[i + 1].m0 = FALSE /\ log[i + 1].role = "seek")

Wit_C15 ==
  \E i \in 1..(N - 2) :
    /\ log[i].role = "low"
    /\ log[i].b = 1
    /\ log[i + 1].b = 1
    /\ log[i + 1].role = "seek"
    /\ log[i + 2].role = "marker"
    /\ log[i - 1].b = 1

(* C16: previous_raw_data is the value assembled by the most recent low    *)
(* byte step, published or not, and 0 before the first.                    *)
Thm_C16 ==
  /\ previous_raw_data = (IF Done = <<>> THEN 0 ELSE Done[Len(Done)].raw)
  /\ \A i \in 2..N :
       log[i].role = "low" => log[i].raw = 256 * log[i - 1].b + log[i].b

Wit_C16 ==
  /\ Len(Done) >= 2
  /\ ~Done[Len(Done)].pub
  /\ Done[Len(Done)].raw # 0
  /\ previous_raw_data = Done[Len(Done)].raw
  /\ log[N].role = "reject"

(* C17: bytes read while seeking or as high byte publish nothing and leave *)
(* previous_raw_data unchanged, so a frame with the value of the frame     *)
(* completed before it is not published whatever was read in between.      *)
Thm_C17 ==
  /\ [](\A i \in 1..N : log[i].role # "low" => ~log[i].pub)
  /\ [](\A i, j \in 1..N :
          (/\ i < j
           /\ log[i].role = "low"
           /\ log[j].role = "low"
           /\ log[i].raw = log[j].raw
           /\ \A k \in (i + 1)..(j - 1) : log[k].role # "low") => ~log[j].pub)
  /\ [][(Len(rx') < Len(rx) /\ ~(mode /\ ~first_byte)) =>
          UNCHANGED <<previous_raw_data, pubs>>]_vars

Wit_C17 ==
  \E i, j \in 1..N :
    /\ i < j
    /\ log[i].role = "low"
    /\ log[i].pub
    /\ log[j].role = "low"
    /\ ~log[j].pub
    /\ log[i].raw = log[j].raw
    /\ \A k \in (i + 1)..(j - 1) : log[k].role # "low"
    /\ \E k \in (i + 1)..(j - 1) : log[k].role = "reject"

(* the two assignments to raw_data, for every value of a byte (a fact of   *)
(* the arithmetic alone, evaluated in the states before the first read)    *)
NoWrap ==
  \A b \in 0..255 :
    /\ HighByte(b).raw_data = 256 * b
    /\ HighByte(b).raw_data <= 65280
    /\ \A r \in {0, 256} : LowByte(r, 0, b).raw_data = r + b

(* C18: raw_data never wraps: the high byte step gives 256*b <= 65280 for  *)
(* every byte b, the low byte is added only to 0 or 256, and the sum is at *)
(* most 511.                                                               *)
Thm_C18 ==
  /\ N = 0 => NoWrap
  /\ (mode /\ ~first_byte) => raw_data \in {0, 256}
  /\ \A i \in 1..N :
       /\ log[i].role \in {"high", "reject"} => log[i].raw = 256 * log[i].b
       /\ log[i].role = "low" =>
            /\ log[i - 1].raw \in {0, 256}
            /\ log[i].raw = log[i - 1].raw + log[i].b
            /\ log[i].raw <= 511

Wit_C18 ==
  /\ \E i \in 1..N : log[i].role = "reject" /\ log[i].raw = 65280
  /\ N > 0
  /\ log[N].role = "low"
  /\ log[N].raw = 511
=============================================================================
